---- MODULE Spec2Model ----
(***************************************************************************)
(* AOSR8 CLI helper: the command prefix tree and the suggestion engine.    *)
(*                                                                         *)
(* The repository holds two copies of the plugin:                          *)
(*   src/syntax.ts  builds the tree from the flat R04 dictionary           *)
(*                  (buildTreeFromR04) and stores descriptions as _desc;   *)
(*   src/main.ts    builds the tree from a nested dictionary               *)
(*                  (normalizeTree) and stores no metadata.                *)
(* Both register an Aosr8Suggest (onTrigger / getSuggestions /             *)
(* selectSuggestion).  The variable impl says which copy is running.       *)
(*                                                                         *)
(* A JavaScript string is a sequence of one-character strings.  A          *)
(* JavaScript object is the sequence of its own properties in insertion    *)
(* order, each [k |-> key, val |-> value]; a value is a record             *)
(* [t |-> type, v |-> payload] with t one of "object", "array", "string",  *)
(* "undefined".  Descriptions are opaque and kept as TLA+ strings.         *)
(***************************************************************************)
EXTENDS Integers, Sequences, FiniteSets, TLC

\* ---------------------------------------------------------------- bounds
\* Longest line the user types.
MaxLineLen == 3
\* Longest line accepted suggestions may grow the text to.
MaxTextLen == 4
\* Most entries of a dictionary in the life-cycle specification Spec.
MaxEntries == 2
\* Most entries of a dictionary in the construction specification SpecBuild.
MaxBuildEntries == 3

\* ------------------------------------------------------------ characters
Chars == {"a", "b", "A", " "}

\* \s of the regular expressions, and the characters trim() strips.
IsSpace(c) == c = " "

ToLowerChar(c) == CASE c = "A" -> "a" [] c = "B" -> "b" [] OTHER -> c

\* UTF-16 code unit of a character (the order Array.prototype.sort uses).
CharCode(c) ==
  CASE c = " " -> 32 [] c = "A" -> 65 [] c = "B" -> 66 [] c = "_" -> 95
    [] c = "a" -> 97 [] c = "b" -> 98 [] c = "c" -> 99 [] c = "d" -> 100
    [] c = "e" -> 101 [] c = "i" -> 105 [] c = "n" -> 110 [] c = "o" -> 111
    [] c = "p" -> 112 [] c = "s" -> 115 [] c = "t" -> 116

\* String.prototype.toLowerCase
RECURSIVE toLowerCase(_)
toLowerCase(s) ==
  IF s = <<>> THEN <<>> ELSE <<ToLowerChar(Head(s))>> \o toLowerCase(Tail(s))

\* String.prototype.substring(0, n), n clamped to the length
substring(s, n) == SubSeq(s, 1, IF n > Len(s) THEN Len(s) ELSE n)

\* String.prototype.trimStart
RECURSIVE trimStart(_)
trimStart(s) ==
  IF s # <<>> /\ IsSpace(Head(s)) THEN trimStart(Tail(s)) ELSE s

\* String.prototype.trimEnd (the second half of trim)
RECURSIVE trimEnd(_)
trimEnd(s) ==
  IF s # <<>> /\ IsSpace(s[Len(s)]) THEN trimEnd(SubSeq(s, 1, Len(s) - 1)) ELSE s

\* String.prototype.trim
trim(s) == trimEnd(trimStart(s))

\* String.prototype.startsWith
startsWith(s, q) == Len(q) <= Len(s) /\ SubSeq(s, 1, Len(q)) = q

\* String.prototype.split(/\s+/): every maximal run of whitespace separates
\* two pieces; a run at either end leaves an empty piece there, and the
\* empty string splits into one empty piece.
RECURSIVE SplitFrom(_, _, _)
SplitFrom(s, cur, inRun) ==
  IF s = <<>> THEN <<cur>>
  ELSE IF IsSpace(Head(s))
       THEN IF inRun THEN SplitFrom(Tail(s), cur, TRUE)
            ELSE <<cur>> \o SplitFrom(Tail(s), <<>>, TRUE)
       ELSE SplitFrom(Tail(s), Append(cur, Head(s)), FALSE)

split(s) == SplitFrom(s, <<>>, FALSE)

\* The comparison the default Array.prototype.sort makes: code units,
\* left to right, a proper prefix first.
RECURSIVE StrLess(_, _)
StrLess(x, y) ==
  IF y = <<>> THEN FALSE
  ELSE IF x = <<>> THEN TRUE
  ELSE IF CharCode(Head(x)) < CharCode(Head(y)) THEN TRUE
  ELSE IF CharCode(Head(x)) > CharCode(Head(y)) THEN FALSE
  ELSE StrLess(Tail(x), Tail(y))

\* Array.prototype.sort() with the default comparison (insertion sort).
RECURSIVE InsertSorted(_, _)
InsertSorted(sorted, x) ==
  IF sorted = <<>> THEN <<x>>
  ELSE IF StrLess(x, Head(sorted)) THEN <<x>> \o sorted
  ELSE <<Head(sorted)>> \o InsertSorted(Tail(sorted), x)

RECURSIVE sort(_)
sort(xs) ==
  IF xs = <<>> THEN <<>> ELSE InsertSorted(sort(SubSeq(xs, 1, Len(xs) - 1)), xs[Len(xs)])

\* ------------------------------------------------------- JavaScript values
Undefined == [t |-> "undefined", v |-> <<>>]
ObjectOf(props) == [t |-> "object", v |-> props]
StringOf(s) == [t |-> "string", v |-> s]
ArrayOf(items) == [t |-> "array", v |-> items]
EmptyObject == ObjectOf(<<>>)

\* The property names of the two reserved keys.
DescKey == <<"_", "d", "e", "s", "c">>
OptionsKey == <<"_", "o", "p", "t", "i", "o", "n", "s">>

\* obj[key]: the own property, or undefined.
GetProp(props, key) ==
  IF \E i \in 1..Len(props) : props[i].k = key
  THEN props[CHOOSE i \in 1..Len(props) : props[i].k = key].val
  ELSE Undefined

\* obj[key] = val: an existing property keeps its place, a new one is last.
SetProp(props, key, val) ==
  IF \E i \in 1..Len(props) : props[i].k = key
  THEN [i \in 1..Len(props) |->
          IF props[i].k = key THEN [k |-> key, val |-> val] ELSE props[i]]
  ELSE Append(props, [k |-> key, val |-> val])

\* Object.keys(obj)
RECURSIVE ObjectKeys(_)
ObjectKeys(props) ==
  IF props = <<>> THEN <<>> ELSE <<Head(props).k>> \o ObjectKeys(Tail(props))

\* ToBoolean of a value: objects and arrays are truthy, "" and undefined not.
Truthy(val) ==
  CASE val.t = "object" -> TRUE
    [] val.t = "array" -> TRUE
    [] val.t = "string" -> val.v # ""
    [] OTHER -> FALSE

\* ------------------------------------------- src/syntax.ts: flat dictionary
\* InsertParts that stores the description before it moves down.
RECURSIVE InsertPartsMarkParent(_, _, _, _)
InsertPartsMarkParent(props, parts, i, description) ==
  LET part == toLowerCase(parts[i])
      created == IF ~Truthy(GetProp(props, part))
                 THEN SetProp(props, part, EmptyObject)
                 ELSE props
      marked == IF i = Len(parts)
                THEN SetProp(created, DescKey, StringOf(description))
                ELSE created
      child == GetProp(marked, part).v
      below == IF i < Len(parts)
               THEN InsertPartsMarkParent(child, parts, i + 1, description)
               ELSE child
  IN  SetProp(marked, part, ObjectOf(below))

\* InsertParts that makes a fresh node for every part.
RECURSIVE InsertPartsOverwrite(_, _, _, _)
InsertPartsOverwrite(props, parts, i, description) ==
  LET part == toLowerCase(parts[i])
      created == SetProp(props, part, EmptyObject)
      child == GetProp(created, part).v
      marked == IF i = Len(parts)
                THEN SetProp(child, DescKey, StringOf(description))
                ELSE child
      below == IF i < Len(parts)
               THEN InsertPartsOverwrite(marked, parts, i + 1, description)
               ELSE marked
  IN  SetProp(created, part, ObjectOf(below))

\* One pass of the inner loop of buildTreeFromR04 from part i on, starting at
\* the node whose properties are props (currentLevel); the result is that
\* node after the rest of the command has been inserted below it.
\* Command tokens are made of letters, so no token is the _desc marker.
RECURSIVE InsertParts(_, _, _, _)
InsertParts(props, parts, i, description) ==
  LET part == toLowerCase(parts[i])
      created == IF ~Truthy(GetProp(props, part))
                 THEN SetProp(props, part, EmptyObject)
                 ELSE props
      child == GetProp(created, part).v
      marked == IF i = Len(parts)
                THEN SetProp(child, DescKey, StringOf(description))
                ELSE child
      below == IF i < Len(parts)
               THEN InsertParts(marked, parts, i + 1, description)
               ELSE marked
  IN  SetProp(created, part, ObjectOf(below))

\* The body of the outer loop of buildTreeFromR04 for one dictionary entry.
InsertCommand(root, entry) ==
  InsertParts(root, split(trim(entry.k)), 1, entry.val.description)

\* buildTreeFromR04 as a whole: the outer loop over Object.entries.
RECURSIVE BuildFrom(_, _)
BuildFrom(root, entries) ==
  IF entries = <<>> THEN root
  ELSE BuildFrom(InsertCommand(root, Head(entries)), Tail(entries))

buildTreeFromR04(dictionary) == BuildFrom(<<>>, dictionary)

\* ------------------------------------------ src/main.ts: nested dictionary
\* The properties of the node reached from props along path.
RECURSIVE NodeAt(_, _)
NodeAt(props, path) ==
  IF path = <<>> THEN props ELSE NodeAt(GetProp(props, Head(path)).v, Tail(path))

\* The tree with the node at path given the properties newProps (the effect
\* of writing through the reference temp / currentRoot).
RECURSIVE ReplaceAt(_, _, _)
ReplaceAt(props, path, newProps) ==
  IF path = <<>> THEN newProps
  ELSE SetProp(props, Head(path),
               ObjectOf(ReplaceAt(GetProp(props, Head(path)).v, Tail(path), newProps)))

\* The inner loop of traverse: "if (!temp[part]) temp[part] = {}" for every
\* part, descending between parts.
RECURSIVE EnsureParts(_, _)
EnsureParts(props, parts) ==
  IF parts = <<>> THEN props
  ELSE LET part == Head(parts)
           created == IF ~Truthy(GetProp(props, part))
                      THEN SetProp(props, part, EmptyObject)
                      ELSE props
       IN  IF Len(parts) = 1 THEN created
           ELSE SetProp(created, part,
                        ObjectOf(EnsureParts(GetProp(created, part).v, Tail(parts))))

\* raw._options.forEach(...) on the node whose properties are props.
RECURSIVE AddOptions(_, _)
AddOptions(props, opts) ==
  IF opts = <<>> THEN props
  ELSE LET o == toLowerCase(Head(opts))
       IN  AddOptions(IF ~Truthy(GetProp(props, o))
                      THEN SetProp(props, o, EmptyObject)
                      ELSE props,
                      Tail(opts))

\* traverse(currentRaw, currentRoot) from key number i on, as one call: tree is
\* the whole tree so far and path leads to currentRoot.  raw is the
\* dictionary normalizeTree was called with, which the options step reads.
RECURSIVE traverse(_, _, _, _, _)
traverse(raw, currentRaw, i, path, tree) ==
  IF i > Len(currentRaw)
  THEN LET options == GetProp(raw, OptionsKey)
       IN  IF Truthy(options) /\ options.t = "array"
           THEN ReplaceAt(tree, path, AddOptions(NodeAt(tree, path), options.v))
           ELSE tree
  ELSE LET key == currentRaw[i].k
           nextLevel == currentRaw[i].val
           parts == split(toLowerCase(key))
           ensured == ReplaceAt(tree, path, EnsureParts(NodeAt(tree, path), parts))
           descended == IF nextLevel.t = "object"
                        THEN traverse(raw, nextLevel.v, 1, path \o parts, ensured)
                        ELSE ensured
       IN  IF key = OptionsKey
           THEN traverse(raw, currentRaw, i + 1, path, tree)
           ELSE traverse(raw, currentRaw, i + 1, path, descended)

normalizeTree(raw) == traverse(raw, raw, 1, <<>>, <<>>)

\* ------------------------------------------------------------ Aosr8Suggest
\* The end of the longest run of non-whitespace that starts at offset i.
RECURSIVE RunEnd(_, _)
RunEnd(s, i) ==
  IF i < Len(s) /\ ~IsSpace(s[i + 1]) THEN RunEnd(s, i + 1) ELSE i

\* RegexMatch with the search run from the right: the shortest match.
RegexMatchLast(sub) ==
  LET hits == {i \in 0..(Len(sub) - 1) : RunEnd(sub, i) > i /\ RunEnd(sub, i) = Len(sub)}
  IN  IF hits = {} THEN [found |-> FALSE, index |-> 0, text |-> <<>>]
      ELSE LET last == CHOOSE i \in hits : \A j \in hits : i >= j
           IN  [found |-> TRUE, index |-> last,
                text |-> SubSeq(sub, last + 1, Len(sub))]

\* sub.match(/(\S+)$/): the search tries the offsets from the left; at an
\* offset the greedy \S+ must be non-empty and end where the input ends.
RegexMatch(sub) ==
  LET hits == {i \in 0..(Len(sub) - 1) : RunEnd(sub, i) > i /\ RunEnd(sub, i) = Len(sub)}
  IN  IF hits = {} THEN [found |-> FALSE, index |-> 0, text |-> <<>>]
      ELSE LET first == CHOOSE i \in hits : \A j \in hits : i <= j
           IN  [found |-> TRUE, index |-> first,
                text |-> SubSeq(sub, first + 1, Len(sub))]

NoContext == [active |-> FALSE, start |-> 0, end |-> 0, query |-> <<>>]

\* Aosr8Suggest.onTrigger; a result that is not active is the null return.
onTrigger(which, lineText, ch) ==
  LET sub == substring(lineText, ch)
      blank == IF which = "syntax" THEN trim(sub) = <<>> ELSE trimStart(sub) = <<>>
      match == RegexMatch(sub)
  IN  IF blank THEN NoContext
      ELSE [active |-> TRUE,
            start |-> IF match.found THEN match.index ELSE ch,
            end |-> ch,
            query |-> IF match.found THEN match.text ELSE <<>>]

\* WalkR04 that stops at a missing edge without marking the path invalid.
RECURSIVE WalkR04Lenient(_, _)
WalkR04Lenient(props, tokens) ==
  IF tokens = <<>> THEN [validPath |-> TRUE, current |-> props]
  ELSE LET lowerToken == toLowerCase(Head(tokens))
           next == GetProp(props, lowerToken)
       IN  IF Truthy(next) /\ next.t \in {"object", "array"}
           THEN WalkR04Lenient(next.v, Tail(tokens))
           ELSE [validPath |-> TRUE, current |-> props]

\* WalkR04 that looks the typed token up as typed.
RECURSIVE WalkR04CaseSensitive(_, _)
WalkR04CaseSensitive(props, tokens) ==
  IF tokens = <<>> THEN [validPath |-> TRUE, current |-> props]
  ELSE LET next == GetProp(props, Head(tokens))
       IN  IF Truthy(next) /\ next.t \in {"object", "array"}
           THEN WalkR04CaseSensitive(next.v, Tail(tokens))
           ELSE [validPath |-> FALSE, current |-> props]

\* The path walk of getSuggestions in src/syntax.ts.
RECURSIVE WalkR04(_, _)
WalkR04(props, tokens) ==
  IF tokens = <<>> THEN [validPath |-> TRUE, current |-> props]
  ELSE LET lowerToken == toLowerCase(Head(tokens))
           next == GetProp(props, lowerToken)
       IN  IF Truthy(next) /\ next.t \in {"object", "array"}
           THEN WalkR04(next.v, Tail(tokens))
           ELSE [validPath |-> FALSE, current |-> props]

\* The path walk of getSuggestions in src/main.ts.
RECURSIVE WalkNested(_, _)
WalkNested(props, tokens) ==
  IF tokens = <<>> THEN [validPath |-> TRUE, current |-> props]
  ELSE LET next == GetProp(props, Head(tokens))
       IN  IF Truthy(next) THEN WalkNested(next.v, Tail(tokens))
           ELSE [validPath |-> FALSE, current |-> props]

\* getSuggestionsR04 without the filter on the _desc marker.
getSuggestionsR04KeepDesc(data, lineText, ctx) ==
  LET prefix == trim(substring(lineText, ctx.start))
      pathTokens == IF Len(prefix) > 0 THEN split(prefix) ELSE <<>>
      walk == WalkR04(data, pathTokens)
      query == toLowerCase(ctx.query)
  IN  IF ~walk.validPath THEN <<>>
      ELSE sort(SelectSeq(ObjectKeys(walk.current), LAMBDA k : startsWith(k, query)))

\* Aosr8Suggest.getSuggestions of src/syntax.ts
getSuggestionsR04(data, lineText, ctx) ==
  LET prefix == trim(substring(lineText, ctx.start))
      pathTokens == IF Len(prefix) > 0 THEN split(prefix) ELSE <<>>
      walk == WalkR04(data, pathTokens)
      query == toLowerCase(ctx.query)
  IN  IF ~walk.validPath THEN <<>>
      ELSE sort(SelectSeq(ObjectKeys(walk.current),
                          LAMBDA k : k # DescKey /\ startsWith(k, query)))

\* Aosr8Suggest.getSuggestions of src/main.ts
getSuggestionsNested(data, lineText, ctx) ==
  LET preStr == trim(substring(lineText, ctx.start))
      tokens == IF Len(preStr) > 0 THEN split(toLowerCase(preStr)) ELSE <<>>
      query == toLowerCase(ctx.query)
      walk == WalkNested(data, tokens)
      all == ObjectKeys(walk.current)
  IN  IF ~walk.validPath THEN <<>>
      ELSE sort(IF query # <<>>
                THEN SelectSeq(all, LAMBDA s : startsWith(s, query))
                ELSE all)

getSuggestions(which, data, lineText, ctx) ==
  IF which = "syntax" THEN getSuggestionsR04(data, lineText, ctx)
  ELSE getSuggestionsNested(data, lineText, ctx)

\* editor.replaceRange(text, from, to) on the one line of the model.
replaceRange(lineText, text, from, to) ==
  SubSeq(lineText, 1, from) \o text \o SubSeq(lineText, to + 1, Len(lineText))

\* Where the host leaves a cursor that stood at the end `to` of a range
\* [from, to) replaced by n characters when the plugin does not place it
\* (src/syntax.ts): behind the new text, or, for a pure insertion at the
\* cursor, possibly still in front of it.
HostCursorAfterReplace(from, to, n) ==
  IF from = to THEN {from, from + n} ELSE {from + n}

\* ------------------------------------------------------------------ inputs
\* Sequences of at most n elements of S.
SeqsUpTo(S, n) == UNION {[1..m -> S] : m \in 0..n}

DistinctKeys(props) ==
  \A i, j \in 1..Len(props) : props[i].k = props[j].k => i = j

\* Command strings of the flat dictionary: one token, two tokens, a case
\* variant, a command that extends another, an untrimmed one with a double
\* space, the empty string and a blank string.
CommandNames ==
  { <<"a">>, <<"a", " ", "b">>, <<"A", " ", "b">>,
    <<"a", " ", "b", " ", "a">>, <<" ", "b", " ", " ", "a", " ">>,
    <<>>, <<" ">> }

Descriptions == {"", "D1"}

FlatEntries ==
  {[k |-> n, val |-> [description |-> d]] : n \in CommandNames, d \in Descriptions}

\* The flat dictionaries of SpecBuild (commands_R04.json once parsed).
FlatDictionaries ==
  {d \in SeqsUpTo(FlatEntries, MaxBuildEntries) : DistinctKeys(d)}

\* Keys of the nested dictionary: multi-word, upper case, leading blank.
NestedKeys == { <<"a", " ", "b">>, <<"A">>, <<" ", "b">> }

OptionLists == { <<<<"A">>>>, <<<<"b">>, <<"a", "b">>>> }

OptionProps == {[k |-> OptionsKey, val |-> ArrayOf(o)] : o \in OptionLists}

\* The mappings one level down: empty, one key, or an options list.
InnerObjects ==
  {EmptyObject}
    \cup {ObjectOf(<<[k |-> n, val |-> EmptyObject]>>) : n \in NestedKeys}
    \cup {ObjectOf(<<p>>) : p \in OptionProps}

NestedProps ==
  {[k |-> n, val |-> o] : n \in NestedKeys, o \in InnerObjects} \cup OptionProps

\* The nested dictionaries of SpecBuild (obsidian_commands.json once parsed).
NestedDictionaries ==
  {d \in SeqsUpTo(NestedProps, MaxBuildEntries) : DistinctKeys(d)}

\* The smaller dictionaries the suggestion engine is exercised on in Spec.
SuggestEntries ==
  { [k |-> <<"a", " ", "b">>, val |-> [description |-> "D1"]],
    [k |-> <<"a", "b">>, val |-> [description |-> ""]],
    [k |-> <<"a">>, val |-> [description |-> "D1"]],
    [k |-> <<"A", " ", "a">>, val |-> [description |-> "D1"]] }

SuggestFlatDictionaries ==
  {d \in SeqsUpTo(SuggestEntries, MaxEntries) : DistinctKeys(d)}

SuggestProps ==
  { [k |-> <<"a", " ", "b">>, val |-> EmptyObject],
    [k |-> <<"a", "b">>, val |-> ObjectOf(<<[k |-> <<"b">>, val |-> EmptyObject]>>)],
    [k |-> <<"A", " ", "a">>, val |-> EmptyObject],
    [k |-> OptionsKey, val |-> ArrayOf(<<<<"B">>>>)] }

SuggestNestedDictionaries ==
  {d \in SeqsUpTo(SuggestProps, MaxEntries) : DistinctKeys(d)}

\* ------------------------------------------------------------------- state
VARIABLES
  impl,              \* "syntax" (src/syntax.ts) or "main" (src/main.ts)
  pc,                \* onload: "start", "building", then "ready" (registered)
  commandsR04,       \* syntax: the flat dictionary (Object.entries order)
  commandDataRaw,    \* main: the nested dictionary (for..in order)
  idx,               \* syntax: the entry the loop of buildTreeFromR04 is at
  stack,             \* main: the calls of traverse in progress
  autocompleteTree,  \* the tree (autocompleteTree / root, normalizedData)
  line,              \* editor: the text of the line
  cursor,            \* editor: the cursor offset in the line
  context,           \* EditorSuggest.context (not active = null)
  suggestions,       \* what getSuggestions last returned to the host
  lastOp,            \* the operation that ran last
  accepted           \* the editor and context the last acceptance found

vars == <<impl, pc, commandsR04, commandDataRaw, idx, stack, autocompleteTree,
          line, cursor, context, suggestions, lastOp, accepted>>

buildVars == <<idx, stack, autocompleteTree>>
editorVars == <<line, cursor, context, suggestions, accepted>>
inputVars == <<impl, commandsR04, commandDataRaw>>

NoSuggestions == [shown |-> FALSE, list |-> <<>>]
NothingAccepted ==
  [value |-> <<>>, line |-> <<>>, cursor |-> 0, context |-> NoContext]

\* The suggester reads the object the plugin built (one shared reference).
data == autocompleteTree

InitRest ==
  /\ pc = "start"
  /\ idx = 1
  /\ stack = <<>>
  /\ autocompleteTree = <<>>
  /\ line = <<>>
  /\ cursor = 0
  /\ context = NoContext
  /\ suggestions = NoSuggestions
  /\ lastOp = "none"
  /\ accepted = NothingAccepted

InitWith(flat, nested) ==
  /\ impl \in {"syntax", "main"}
  /\ commandsR04 \in (IF impl = "syntax" THEN flat ELSE {<<>>})
  /\ commandDataRaw \in (IF impl = "main" THEN nested ELSE {<<>>})
  /\ InitRest

Init == InitWith(SuggestFlatDictionaries, SuggestNestedDictionaries)
InitBuild == InitWith(FlatDictionaries, NestedDictionaries)

\* ------------------------------------------------------------ construction
\* onload begins: buildTreeFromR04 resets the tree and starts its loop;
\* normalizeTree makes the empty root and calls traverse(raw, root).
OnloadStart ==
  /\ pc = "start"
  /\ pc' = "building"
  /\ autocompleteTree' = <<>>
  /\ idx' = 1
  /\ stack' = IF impl = "main"
              THEN <<[currentRaw |-> commandDataRaw, i |-> 1, path |-> <<>>]>>
              ELSE <<>>
  /\ lastOp' = "onload"
  /\ UNCHANGED <<inputVars, editorVars>>

\* One iteration of the outer loop of buildTreeFromR04.
BuildTreeStep ==
  /\ pc = "building" /\ impl = "syntax"
  /\ idx <= Len(commandsR04)
  /\ autocompleteTree' = InsertCommand(autocompleteTree, commandsR04[idx])
  /\ idx' = idx + 1
  /\ lastOp' = "insert"
  /\ UNCHANGED <<pc, stack, inputVars, editorVars>>

\* One iteration of the for..in loop of the innermost call of traverse.
TraverseKey ==
  /\ pc = "building" /\ impl = "main"
  /\ stack # <<>>
  /\ LET top == stack[Len(stack)]
         rest == SubSeq(stack, 1, Len(stack) - 1)
     IN  /\ top.i <= Len(top.currentRaw)
         /\ LET key == top.currentRaw[top.i].k
                nextLevel == top.currentRaw[top.i].val
                parts == split(toLowerCase(key))
                advanced == [top EXCEPT !.i = top.i + 1]
            IN  IF key = OptionsKey
                THEN /\ stack' = Append(rest, advanced)
                     /\ UNCHANGED autocompleteTree
                ELSE /\ autocompleteTree' =
                          ReplaceAt(autocompleteTree, top.path,
                                    EnsureParts(NodeAt(autocompleteTree, top.path), parts))
                     /\ stack' =
                          IF nextLevel.t = "object"
                          THEN Append(Append(rest, advanced),
                                      [currentRaw |-> nextLevel.v, i |-> 1,
                                       path |-> top.path \o parts])
                          ELSE Append(rest, advanced)
  /\ lastOp' = "insert"
  /\ UNCHANGED <<pc, idx, inputVars, editorVars>>

\* The end of a call of traverse: the options step, then the return.  The
\* code reads raw._options, the top-level dictionary, in every call.
TraverseReturn ==
  /\ pc = "building" /\ impl = "main"
  /\ stack # <<>>
  /\ LET top == stack[Len(stack)]
         options == GetProp(commandDataRaw, OptionsKey)
     IN  /\ top.i > Len(top.currentRaw)
         /\ autocompleteTree' =
              IF Truthy(options) /\ options.t = "array"
              THEN ReplaceAt(autocompleteTree, top.path,
                             AddOptions(NodeAt(autocompleteTree, top.path), options.v))
              ELSE autocompleteTree
  /\ stack' = SubSeq(stack, 1, Len(stack) - 1)
  /\ lastOp' = "insert"
  /\ UNCHANGED <<pc, idx, inputVars, editorVars>>

\* Registration that does not wait for the end of construction.
BuildDoneEarly == TRUE

\* The construction call of onload has returned: the loop of buildTreeFromR04
\* is past its last entry, or the outermost call of traverse has ended.
BuildDone ==
  IF impl = "syntax" THEN idx > Len(commandsR04) ELSE stack = <<>>

\* onload continues: registerEditorSuggest(new Aosr8Suggest(app, tree)).
RegisterEditorSuggest ==
  /\ pc = "building" /\ BuildDone
  /\ pc' = "ready"
  /\ lastOp' = "register"
  /\ UNCHANGED <<buildVars, inputVars, editorVars>>

\* ------------------------------------------------------------------ editor
\* What every edit or cursor move does besides: the popup closes.
EditCloses ==
  /\ context' = NoContext
  /\ suggestions' = NoSuggestions
  /\ accepted' = NothingAccepted
  /\ lastOp' = "edit"
  /\ UNCHANGED <<pc, buildVars, inputVars>>

\* The user types a character at the cursor.
TypeChar ==
  /\ pc = "ready"
  /\ Len(line) < MaxLineLen
  /\ \E c \in Chars :
       line' = SubSeq(line, 1, cursor) \o <<c>> \o SubSeq(line, cursor + 1, Len(line))
  /\ cursor' = cursor + 1
  /\ EditCloses

\* The user deletes the character before the cursor.
Backspace ==
  /\ pc = "ready"
  /\ cursor > 0
  /\ line' = SubSeq(line, 1, cursor - 1) \o SubSeq(line, cursor + 1, Len(line))
  /\ cursor' = cursor - 1
  /\ EditCloses

\* The user moves the cursor one character.
MoveCursor ==
  /\ pc = "ready"
  /\ \E c \in {cursor - 1, cursor + 1} :
       /\ c >= 0 /\ c <= Len(line)
       /\ cursor' = c
  /\ UNCHANGED line
  /\ EditCloses

\* The host calls onTrigger and keeps a non-null result as the context.
Trigger ==
  /\ pc = "ready"
  /\ context' = onTrigger(impl, line, cursor)
  /\ suggestions' = NoSuggestions
  /\ accepted' = NothingAccepted
  /\ lastOp' = "trigger"
  /\ UNCHANGED <<pc, buildVars, inputVars, line, cursor>>

\* The host calls getSuggestions with the context.
Suggest ==
  /\ pc = "ready"
  /\ context.active
  /\ suggestions' = [shown |-> TRUE,
                     list |-> getSuggestions(impl, data, line, context)]
  /\ accepted' = NothingAccepted
  /\ lastOp' = "suggest"
  /\ UNCHANGED <<pc, buildVars, inputVars, line, cursor, context>>

\* The user accepts a listed suggestion: selectSuggestion(value).
\* src/main.ts places the cursor; src/syntax.ts leaves it to the host.
SelectSuggestion ==
  /\ pc = "ready"
  /\ context.active /\ suggestions.shown
  /\ \E n \in 1..Len(suggestions.list) :
       LET value == suggestions.list[n]
           text == Append(value, " ")
       IN  /\ Len(line) - (context.end - context.start) + Len(text) <= MaxTextLen
           /\ line' = replaceRange(line, text, context.start, context.end)
           /\ IF impl = "main"
              THEN cursor' = context.start + Len(value) + 1
              ELSE cursor' \in HostCursorAfterReplace(context.start, context.end, Len(text))
           /\ accepted' = [value |-> value, line |-> line, cursor |-> cursor,
                           context |-> context]
  /\ context' = NoContext
  /\ suggestions' = NoSuggestions
  /\ lastOp' = "select"
  /\ UNCHANGED <<pc, buildVars, inputVars>>

\* selectSuggestion while this.context is null: the early return.
SelectWithoutContext ==
  /\ pc = "ready"
  /\ ~context.active
  /\ accepted' = [value |-> <<"a">>, line |-> line, cursor |-> cursor,
                  context |-> context]
  /\ lastOp' = "select"
  /\ UNCHANGED <<pc, buildVars, inputVars, line, cursor, context, suggestions>>

\* ---------------------------------------------------------- specifications
Next ==
  \/ OnloadStart
  \/ BuildTreeStep
  \/ TraverseKey
  \/ TraverseReturn
  \/ RegisterEditorSuggest
  \/ TypeChar
  \/ Backspace
  \/ MoveCursor
  \/ Trigger
  \/ Suggest
  \/ SelectSuggestion
  \/ SelectWithoutContext

\* The plugin from load to use, on the small dictionaries.
Spec == Init /\ [][Next]_vars

NextBuild ==
  \/ OnloadStart
  \/ BuildTreeStep
  \/ TraverseKey
  \/ TraverseReturn
  \/ RegisterEditorSuggest

\* Construction alone, on every dictionary within the bounds.
SpecBuild == InitBuild /\ [][NextBuild]_vars

\* ------------------------------------------------- vocabulary of the claims
IsUpper(c) == c \in {"A", "B"}

\* The words of a text: its maximal runs of non-whitespace, in order.
RECURSIVE WordsOf(_)
WordsOf(s) ==
  IF s = <<>> THEN <<>>
  ELSE IF IsSpace(Head(s)) THEN WordsOf(Tail(s))
  ELSE LET n == CHOOSE m \in 1..Len(s) :
                  /\ \A i \in 1..m : ~IsSpace(s[i])
                  /\ m = Len(s) \/ IsSpace(s[m + 1])
       IN  <<SubSeq(s, 1, n)>> \o WordsOf(SubSeq(s, n + 1, Len(s)))

LowerWord(w) == [i \in 1..Len(w) |-> IF w[i] = "A" THEN "a" ELSE IF w[i] = "B" THEN "b" ELSE w[i]]
LowerWords(ws) == [i \in 1..Len(ws) |-> LowerWord(ws[i])]

\* The child edges of a node: its properties that lead to a node.
ChildTokens(props) ==
  {props[i].k : i \in {j \in 1..Len(props) : props[j].k # DescKey /\ props[j].val.t = "object"}}

HasChild(props, tok) == tok \in ChildTokens(props)

\* Following one child edge per token from the node props.
RECURSIVE Resolve(_, _)
Resolve(props, toks) ==
  IF toks = <<>> THEN [ok |-> TRUE, node |-> props]
  ELSE IF HasChild(props, Head(toks))
       THEN Resolve(GetProp(props, Head(toks)).v, Tail(toks))
       ELSE [ok |-> FALSE, node |-> <<>>]

HasMetadata(props) == \E i \in 1..Len(props) : props[i].k = DescKey

\* Lexicographic order on code units.
LexLess(x, y) ==
  \E n \in 0..Len(x) :
    /\ n <= Len(y)
    /\ \A i \in 1..n : x[i] = y[i]
    /\ \/ n = Len(x) /\ n < Len(y)
       \/ n < Len(x) /\ n < Len(y) /\ CharCode(x[n + 1]) < CharCode(y[n + 1])

Elements(xs) == {xs[i] : i \in 1..Len(xs)}

\* The completed-token prefix of the query in progress, and where it leads.
PrefixTokens == LowerWords(WordsOf(SubSeq(line, 1, context.start)))
Resolved == Resolve(autocompleteTree, PrefixTokens)

\* ---------------------------------------------------------------------- C1
\* C1: after getSuggestions on a triggered query whose completed-token prefix
\* resolves to a node N, the list holds exactly the child tokens of N that
\* start with the lowercased partial token, never _desc, in strictly
\* ascending lexicographic order (hence without duplicates).
C1Suggestions ==
  (lastOp = "suggest" /\ Resolved.ok) =>
    LET list == suggestions.list
        q == LowerWord(context.query)
    IN  /\ suggestions.shown
        /\ Elements(list) =
             {k \in ChildTokens(Resolved.node) :
                Len(q) <= Len(k) /\ \A i \in 1..Len(q) : k[i] = q[i]}
        /\ DescKey \notin Elements(list)
        /\ \A i, j \in 1..Len(list) : i < j => LexLess(list[i], list[j])

\* A query below a node that carries _desc, with a partial token, answered.
C1Witness ==
  /\ lastOp = "suggest" /\ impl = "syntax"
  /\ Resolved.ok /\ PrefixTokens # <<>>
  /\ HasMetadata(Resolved.node)
  /\ context.query # <<>>
  /\ suggestions.list # <<>>

\* ---------------------------------------------------------------------- C3
\* C3: onTrigger declines exactly when the text before the cursor is empty
\* or all whitespace; otherwise the span is [start, cursor) with start the
\* beginning of the maximal trailing run of non-whitespace (start = cursor
\* when the character before the cursor is whitespace) and the query is the
\* text of the span.
C3Trigger ==
  lastOp = "trigger" =>
    /\ context.active <=> (\E i \in 1..cursor : ~IsSpace(line[i]))
    /\ context.active =>
         /\ context.end = cursor
         /\ context.start \in 0..cursor
         /\ \A i \in (context.start + 1)..cursor : ~IsSpace(line[i])
         /\ context.start = 0 \/ IsSpace(line[context.start])
         /\ context.query = SubSeq(line, context.start + 1, cursor)

\* A trigger whose span starts inside the line and is more than one
\* character long.
C3Witness ==
  /\ lastOp = "trigger" /\ context.active
  /\ context.start > 0
  /\ context.end - context.start >= 2

C5Acceptance ==
  [][lastOp' = "select" =>
       IF context.active
       THEN LET t == accepted'.value
            IN  /\ line' = SubSeq(line, 1, context.start) \o t \o <<" ">>
                             \o SubSeq(line, context.end + 1, Len(line))
                /\ cursor' = context.start + Len(t) + 1
       ELSE line' = line /\ cursor' = cursor /\ context' = context]_vars

\* ---------------------------------------------------------------------- C6
\* The ways of writing a text that differ only in the case of its letters.
CaseForms(c) ==
  IF c \in {"a", "A"} THEN {"a", "A"} ELSE IF c \in {"b", "B"} THEN {"b", "B"} \cap Chars ELSE {c}

RECURSIVE CaseVariants(_)
CaseVariants(s) ==
  IF s = <<>> THEN {<<>>}
  ELSE {<<c>> \o r : c \in CaseForms(Head(s)), r \in CaseVariants(Tail(s))}

\* C6: a line that differs from the current one only in letter case gets the
\* same trigger decision and span at the same cursor, and the same
\* suggestion list; every returned token is lowercase.
C6CaseInsensitive ==
  /\ lastOp = "trigger" =>
       \A other \in CaseVariants(line) :
         LET there == onTrigger(impl, other, cursor)
         IN  /\ there.active = context.active
             /\ there.start = context.start
             /\ there.end = context.end
  /\ lastOp = "suggest" =>
       /\ \A other \in CaseVariants(line) :
            getSuggestions(impl, data, other, onTrigger(impl, other, cursor))
              = suggestions.list
       /\ \A t \in Elements(suggestions.list) : \A i \in 1..Len(t) : ~IsUpper(t[i])

\* An answered query typed with capitals both in the prefix and in the
\* partial token.
C6Witness ==
  /\ lastOp = "suggest"
  /\ \E i \in 1..context.start : IsUpper(line[i])
  /\ \E i \in 1..Len(context.query) : IsUpper(context.query[i])
  /\ suggestions.list # <<>>

\* ------------------------------------------------ vocabulary: construction
\* The token paths of all nodes below (and including) the node props.
RECURSIVE PathsFrom(_, _)
PathsFrom(props, prefix) ==
  {prefix} \cup
    UNION {PathsFrom(GetProp(props, tok).v, Append(prefix, tok)) : tok \in ChildTokens(props)}

PathsOf(tree) == PathsFrom(tree, <<>>)

\* The paths of the nodes that carry metadata.
DescPathsOf(tree) == {p \in PathsOf(tree) : HasMetadata(NodeAt(tree, p))}

EdgeLabels(tree) == {p[Len(p)] : p \in PathsOf(tree) \ {<<>>}}

\* The token path a command string stands for.
CommandPath(name) == LowerWords(WordsOf(name))

IsProperPrefix(p, q) == Len(p) < Len(q) /\ SubSeq(q, 1, Len(p)) = p

\* The entries buildTreeFromR04 has inserted so far.
InsertedCount == IF pc = "start" THEN 0 ELSE idx - 1

\* The last inserted entry with the token path of entry i.
LastWithPathOf(i) ==
  CHOOSE j \in i..InsertedCount :
    /\ CommandPath(commandsR04[j].k) = CommandPath(commandsR04[i].k)
    /\ \A m \in (j + 1)..InsertedCount :
         CommandPath(commandsR04[m].k) # CommandPath(commandsR04[i].k)

\* ---------------------------------------------------------------------- C2
\* C2 as stated: every multi-token command inserted from the flat dictionary
\* leads, one child edge per lowercased token, to a node with non-empty
\* metadata.
C2NonEmptyMetadata ==
  impl = "syntax" =>
    \A i \in 1..InsertedCount :
      LET path == CommandPath(commandsR04[i].k)
          r == Resolve(autocompleteTree, path)
      IN  Len(path) >= 2 =>
            /\ r.ok
            /\ HasMetadata(r.node)
            /\ GetProp(r.node, DescKey).v # ""

\* C2 amended: the node is reached and carries the _desc marker, whose value
\* is the description of the last inserted entry with that token path; it
\* is non-empty exactly when that description is.
C2MetadataSet ==
  impl = "syntax" =>
    \A i \in 1..InsertedCount :
      LET path == CommandPath(commandsR04[i].k)
          r == Resolve(autocompleteTree, path)
      IN  Len(path) >= 2 =>
            /\ r.ok
            /\ HasMetadata(r.node)
            /\ GetProp(r.node, DescKey).t = "string"
            /\ GetProp(r.node, DescKey).v
                 = commandsR04[LastWithPathOf(i)].val.description

\* Two entries with the same token path, the earlier described, the later
\* with the empty description, both inserted, with a third entry after them.
C2Witness ==
  /\ impl = "syntax" /\ pc = "ready"
  /\ Len(commandsR04) = 3
  /\ Len(CommandPath(commandsR04[1].k)) >= 2
  /\ CommandPath(commandsR04[1].k) = CommandPath(commandsR04[2].k)
  /\ commandsR04[1].val.description = "D1"
  /\ commandsR04[2].val.description = ""

\* ---------------------------------------------------------------------- C7
IsMalformed(name) == WordsOf(name) = <<>>

WellFormedOnly(dictionary) == SelectSeq(dictionary, LAMBDA e : ~IsMalformed(e.k))

\* C7: an entry whose command string is empty or blank is skipped: the tree
\* is the tree of the dictionary without it, and no edge is labelled with
\* the empty string or with a string that contains whitespace.
C7MalformedSkipped ==
  pc = "ready" =>
    /\ impl = "syntax" =>
         autocompleteTree = buildTreeFromR04(WellFormedOnly(commandsR04))
    /\ \A label \in EdgeLabels(autocompleteTree) :
         /\ label # <<>>
         /\ \A i \in 1..Len(label) : ~IsSpace(label[i])

NonSentinelKeys(mapping) == {mapping[i].k : i \in 1..Len(mapping)} \ {OptionsKey}

\* The option strings listed under the sentinel key of a mapping.
OptionsOf(mapping) ==
  IF GetProp(mapping, OptionsKey).t = "array"
  THEN Elements(GetProp(mapping, OptionsKey).v)
  ELSE {}

\* The command token sequences a nested dictionary describes: the words of
\* the keys along every chain of nested mappings, and every listed option
\* below the level that lists it.
RECURSIVE Described(_, _)
Described(mapping, prefix) ==
  {prefix \o LowerWords(WordsOf(o)) : o \in OptionsOf(mapping)}
    \cup UNION {
      LET here == prefix \o LowerWords(WordsOf(key))
          value == GetProp(mapping, key)
      IN  {here} \cup (IF value.t = "object" THEN Described(value.v, here) ELSE {})
      : key \in NonSentinelKeys(mapping)}

RECURSIVE JoinWords(_)
JoinWords(path) ==
  IF path = <<>> THEN <<>>
  ELSE IF Len(path) = 1 THEN Head(path)
  ELSE Head(path) \o <<" ">> \o JoinWords(Tail(path))

\* A flat dictionary with one entry per token sequence of S.
RECURSIVE FlatFor(_)
FlatFor(S) ==
  IF S = {} THEN <<>>
  ELSE LET path == CHOOSE x \in S : TRUE
       IN  <<[k |-> JoinWords(path), val |-> [description |-> "D1"]]>>
             \o FlatFor(S \ {path})

\* ---------------------------------------------------------------------- C8
\* C8: the tree normalizeTree builds from a nested dictionary has the same
\* children at every path as the tree buildTreeFromR04 builds from the flat
\* dictionary of the same command token sequences.
C8ShapesAgree ==
  (pc = "ready" /\ impl = "main") =>
    PathsOf(autocompleteTree)
      = PathsOf(buildTreeFromR04(FlatFor(Described(commandDataRaw, <<>>) \ {<<>>})))

\* ---------------------------------------------------------------------- C9
\* The levels of a nested dictionary: each mapping with the path of the node
\* it is normalized into.
RECURSIVE Levels(_, _)
Levels(mapping, path) ==
  {[path |-> path, mapping |-> mapping]}
    \cup UNION {
      LET value == GetProp(mapping, key)
      IN  IF value.t = "object"
          THEN Levels(value.v, path \o split(toLowerCase(key)))
          ELSE {}
      : key \in NonSentinelKeys(mapping)}

\* The paths the keys and the option lists of the levels call for.
CalledFor(raw) ==
  UNION {
    {L.path \o split(toLowerCase(key)) : key \in NonSentinelKeys(L.mapping)}
      \cup {Append(L.path, LowerWord(o)) : o \in OptionsOf(L.mapping)}
    : L \in Levels(raw, <<>>)}

PrefixClosure(S) == UNION {{SubSeq(p, 1, n) : n \in 0..Len(p)} : p \in S \cup {<<>>}}

\* C9: every option listed at a level is a metadata-free child of that
\* level's node, the sentinel key is never an edge, and the tree has no node
\* that neither a key nor an option list of its level calls for.
C9Options ==
  (pc = "ready" /\ impl = "main") =>
    /\ \A L \in Levels(commandDataRaw, <<>>) :
         \A o \in OptionsOf(L.mapping) :
           /\ HasChild(NodeAt(autocompleteTree, L.path), LowerWord(o))
           /\ ~HasMetadata(GetProp(NodeAt(autocompleteTree, L.path), LowerWord(o)).v)
    /\ OptionsKey \notin EdgeLabels(autocompleteTree)
    /\ PathsOf(autocompleteTree) \subseteq PrefixClosure(CalledFor(commandDataRaw))

\* --------------------------------------------------------------------- C11
\* The tree the dictionary of the loaded copy builds when its construction
\* runs from beginning to end.
CompleteTree ==
  IF impl = "syntax" THEN buildTreeFromR04(commandsR04)
  ELSE normalizeTree(commandDataRaw)

SuggesterOps == {"trigger", "suggest", "select"}

\* C11: whenever a trigger, suggestion or acceptance operation can run (the
\* suggester is registered), construction has finished and the tree the
\* suggester reads is the complete tree built from the dictionary; such an
\* operation runs only after registration; construction starts once (onload
\* begins only from the unloaded state, which is never re-entered, and no
\* construction step follows registration); and no step after registration,
\* trigger, suggestion and acceptance included, changes the tree.
C11TreeComplete ==
  /\ [](pc = "ready" => (BuildDone /\ data = CompleteTree))
  /\ [][lastOp' \in SuggesterOps => (pc = "ready" /\ pc' = "ready")]_vars
  /\ [][lastOp' = "onload" => pc = "start"]_vars
  /\ [][pc # "start" => pc' # "start"]_vars
  /\ [][pc = "ready" => (pc' = "ready" /\ lastOp' \notin {"onload", "insert", "register"})]_vars
  /\ [][pc = "ready" => autocompleteTree' = autocompleteTree]_vars

\* An acceptance has run on a tree of two levels built from two entries, and
\* the tree is still the complete one.
C11Witness ==
  /\ pc = "ready"
  /\ lastOp = "select" /\ accepted.context.active
  /\ Len(IF impl = "syntax" THEN commandsR04 ELSE commandDataRaw) = 2
  /\ \E t \in ChildTokens(autocompleteTree) :
       ChildTokens(GetProp(autocompleteTree, t).v) # {}
  /\ autocompleteTree = CompleteTree

\* --------------------------------------------------------------------- C12
\* C12: when a listed token t has been accepted and the next trigger runs at
\* the cursor the acceptance left, that trigger is taken with an empty partial
\* token, its completed-token prefix is the old prefix followed by t, the
\* prefix resolves, and the answer to the query is exactly the child tokens
\* of the node reached by t in strictly ascending order; as a property of
\* every such trigger it covers any number of consecutive acceptances.
C12NoDeadEnd ==
  [][(lastOp = "select" /\ accepted.context.active /\ lastOp' = "trigger") =>
       LET t == accepted.value
           oldPrefix == LowerWords(WordsOf(SubSeq(accepted.line, 1,
                                                  accepted.context.start)))
           reached == Resolve(autocompleteTree, Append(oldPrefix, t))
           list == getSuggestions(impl, data, line', context')
       IN  /\ context'.active
           /\ context'.query = <<>>
           /\ LowerWords(WordsOf(SubSeq(line', 1, context'.start)))
                = Append(oldPrefix, t)
           /\ reached.ok
           /\ Elements(list) = ChildTokens(reached.node)
           /\ \A i, j \in 1..Len(list) : i < j => LexLess(list[i], list[j])]_vars

====
